---- MODULE Spec2Model ----
(***************************************************************************)
(* Model of the Jira dashboard backend router                              *)
(* (plugins/jira-dashboard-backend/src/service/router.ts) and of the       *)
(* README fetch component exercised by FetchComponent.test.tsx.            *)
(*                                                                         *)
(* One dashboard request and one avatar request may be in flight at the    *)
(* same time; they share the plugin cache and the clock.  Every await of   *)
(* a handler is a step boundary.  Locals that the handler does not read    *)
(* again are reset when the step that last reads them has run.             *)
(***************************************************************************)
EXTENDS Integers, Sequences, FiniteSets, TLC

\* ------------------------------------------------------------- bounds ----
MaxIssues == 1            \* longest result of one issue query
MaxTicks == 2             \* how often the clock advances
MaxChunks == 1            \* chunks the avatar image body may emit
TickMs == 30000           \* milliseconds per clock step

\* ---------------------------------------------------------- JS values ----
Undefined == "undefined"

None == [has |-> FALSE, val |-> <<>>]

Some(v) == [has |-> TRUE, val |-> v]

Comma == ","

\* an annotation is absent or a string, a string is its characters:
\* absent, "", "A", "B", "A,B", "A,"
ComponentAnnotations ==
    {None, Some(<<>>), Some(<<"A">>), Some(<<"B">>),
     Some(<<"A", Comma, "B">>), Some(<<"A", Comma>>)}

\* absent, "", "A", "A,B", "B,A", "A,A", "A,C", "A,,B"
FilterAnnotations ==
    {None, Some(<<>>), Some(<<"A">>), Some(<<"A", Comma, "B">>),
     Some(<<"B", Comma, "A">>), Some(<<"A", Comma, "A">>),
     Some(<<"A", Comma, "C">>), Some(<<"A", Comma, Comma, "B">>)}

RECURSIVE SplitFrom(_, _, _)
SplitFrom(s, i, cur) ==
    IF i > Len(s) THEN <<cur>>
    ELSE IF s[i] = Comma THEN <<cur>> \o SplitFrom(s, i + 1, <<>>)
    ELSE SplitFrom(s, i + 1, Append(cur, s[i]))

\* String.prototype.split(','): "" gives [""], "A," gives ["A", ""]
split(s) == SplitFrom(s, 1, <<>>)

\* !v for a string-or-undefined value
FalsyEmptyIsKey(v) == v = Undefined

Falsy(v) == v = Undefined \/ v = ""

\* an array, even an empty one, is truthy
TruthyArray(a) == TRUE

RECURSIVE SeqsUpTo(_, _)
SeqsUpTo(S, n) == IF n = 0 THEN {<<>>}
                  ELSE SeqsUpTo(S, n - 1) \cup [1..n -> S]

\* ------------------------------------------------- external services ----
\* project keys the issue tracker knows
ProjectKeys == {"K1"}

\* values the project-key annotation takes
KeyAnnotations == {Undefined, "", "K1", "KX"}

UserRefs == {Undefined, "user:default/guest"}

Issues == {"I1", "I2"}

IssueLists == SeqsUpTo(Issues, MaxIssues)

\* names of the filters the configuration defines
ConfiguredFilters == {<<"A">>, <<"B">>}

DefaultFilter(id) == [origin |-> "default", id |-> id]

NamedFilter(name) == [origin |-> "config", id |-> name]

\* open and incoming issues, and the caller's own when the caller is known
getDefaultFilters(userEntityRef) ==
    <<DefaultFilter(<<"open">>), DefaultFilter(<<"incoming">>)>>
    \o (IF userEntityRef = Undefined THEN <<>>
        ELSE <<DefaultFilter(<<"assigned-to-me">>)>>)

\* every name of the annotation resolves, or the resolution fails
FiltersResolve(names) == \A i \in 1..Len(names) : names[i] \in ConfiguredFilters

getFiltersFromAnnotations(names) == [i \in 1..Len(names) |-> NamedFilter(names[i])]

\* --------------------------------------------------------------- cache ---
ShortTTL == 1000 * 20

DEFAULT_TTL == 1000 * 60

NoEntry == [has |-> FALSE, value |-> Undefined, expires |-> 0, storedAt |-> 0]

VARIABLES now, cache, dash, av, readme

vars == <<now, cache, dash, av, readme>>

backend == <<now, cache, dash, av>>

CacheLive(k) == k \in ProjectKeys /\ cache[k].has /\ now < cache[k].expires

CacheGet(k) == IF CacheLive(k) THEN cache[k].value ELSE Undefined

CacheSet(k, v) ==
    [cache EXCEPT ![k] = [has |-> TRUE, value |-> v,
                          expires |-> now + DEFAULT_TTL, storedAt |-> now]]

\* milliseconds since the key was last stored, -1 when it never was
Elapsed(k) == IF k \in ProjectKeys /\ cache[k].has THEN now - cache[k].storedAt ELSE -1

NoLookup == [outcome |-> "none", elapsed |-> -1]

\* getProjectResponse up to its first await on the tracker: a live entry is
\* returned, anything else asks the tracker for the project
LookupOf(k) == [outcome |-> IF CacheLive(k) THEN "hit" ELSE "miss", elapsed |-> Elapsed(k)]

\* what the tracker's get-project call may do for a key
ProjectOutcomes(k) == IF k \in ProjectKeys THEN {"ok", "error", "none"} ELSE {"error", "none"}

CatalogOutcomes == {"error", "absent", "found"}

QueryOutcomes == {[ok |-> TRUE, issues |-> l] : l \in IssueLists}
                 \cup {[ok |-> FALSE, issues |-> <<>>]}

\* ------------------------------------------------- dashboard handler ----
DashIdle ==
    [pc |-> "idle", entityFound |-> FALSE, projectKey |-> Undefined,
     project |-> "pending", projectResponse |-> Undefined, lookup |-> NoLookup,
     calls |-> {}, userRef |-> Undefined, filtersAnn |-> None, filters |-> <<>>,
     compAnn |-> None, roadieAnn |-> None, components |-> <<>>,
     hasComponents |-> FALSE, filterIssues |-> <<>>, componentIssues |-> <<>>,
     status |-> 0, body |-> "none", data |-> <<>>]

\* response.status(s).json(b)
Respond(r, s, b) == [r EXCEPT !.pc = "done", !.status = s, !.body = b]

\* a throw that no handler catches reaches router.use(errorHandler())
ErrorHandler(r) == Respond(r, 500, "errorHandler")

\* the catch around getProjectResponse
DashCatchRethrows(d) == ErrorHandler([d EXCEPT !.project = "threw"])

DashCatch(d) == Respond([d EXCEPT !.project = "threw"], 404, "errorObject")

\* filters = getDefaultFilters(..); if (custom) filters.push(...resolved)
BuildFiltersCustomFirst(defaults, custom) ==
    IF custom.has THEN getFiltersFromAnnotations(custom.val) \o defaults ELSE defaults

BuildFilters(defaults, custom) ==
    IF custom.has THEN defaults \o getFiltersFromAnnotations(custom.val) ELSE defaults

SplitOpt(ann) == IF ann.has THEN split(ann.val) ELSE <<>>

\* the primary annotation's values, then the Roadie annotation's
ComponentsOfOverride(primary, roadie) ==
    IF roadie.has THEN SplitOpt(roadie) ELSE SplitOpt(primary)

ComponentsOf(primary, roadie) == SplitOpt(primary) \o SplitOpt(roadie)

RECURSIVE Dedup(_)
Dedup(q) == IF q = <<>> THEN <<>>
            ELSE LET rest == Dedup(SubSeq(q, 1, Len(q) - 1))
                     x == q[Len(q)]
                 IN IF \E i \in 1..Len(rest) : rest[i] = x THEN rest ELSE Append(rest, x)

MergeIssuesDedup(issues, componentIssues) == Dedup(issues \o componentIssues)

\* issues = issues.concat(componentIssues)
MergeIssues(issues, componentIssues) == issues \o componentIssues

DashRequest ==
    /\ dash.pc = "idle"
    /\ \E catalog \in CatalogOutcomes, key \in KeyAnnotations :
         dash' = IF catalog = "error" THEN ErrorHandler(dash)
                 ELSE IF catalog = "absent" THEN Respond(dash, 500, "errorObject")
                 ELSE IF Falsy(key)
                      THEN Respond([dash EXCEPT !.entityFound = TRUE, !.projectKey = key],
                                   404, "errorString")
                 ELSE [dash EXCEPT !.pc = "getProject", !.entityFound = TRUE,
                                   !.projectKey = key]
    /\ UNCHANGED <<now, cache, av, readme>>

DashGetProject ==
    /\ dash.pc = "getProject"
    /\ LET l == LookupOf(dash.projectKey)
       IN dash' = IF l.outcome = "hit"
                  THEN [dash EXCEPT !.pc = "identity", !.lookup = l,
                                    !.project = "returned",
                                    !.projectResponse = CacheGet(dash.projectKey)]
                  ELSE [dash EXCEPT !.pc = "upstream", !.lookup = l,
                                    !.calls = @ \cup {"getProject"}]
    /\ UNCHANGED <<now, cache, av, readme>>

DashProjectReturn ==
    /\ dash.pc = "upstream"
    /\ \E o \in ProjectOutcomes(dash.projectKey) :
         /\ cache' = IF o = "ok" THEN CacheSet(dash.projectKey, dash.projectKey) ELSE cache
         /\ dash' = IF o = "error" THEN DashCatch(dash)
                    ELSE [dash EXCEPT !.pc = "identity",
                                      !.project = IF o = "ok" THEN "returned" ELSE "empty",
                                      !.projectResponse =
                                          IF o = "ok" THEN dash.projectKey ELSE Undefined]
    /\ UNCHANGED <<now, av, readme>>

DashBuildFilters ==
    /\ dash.pc = "identity"
    /\ \E user \in UserRefs, ann \in FilterAnnotations :
         LET custom == IF ann.has THEN Some(split(ann.val)) ELSE None
             d == [dash EXCEPT !.lookup = NoLookup]
         IN dash' = IF custom.has /\ ~FiltersResolve(custom.val)
                    THEN ErrorHandler(d)
                    ELSE [d EXCEPT !.pc = "filterQuery", !.userRef = user,
                                   !.filtersAnn = ann,
                                   !.filters = BuildFilters(getDefaultFilters(user), custom),
                                   !.calls = @ \cup {"getIssuesFromFilters"}]
    /\ UNCHANGED <<now, cache, av, readme>>

DashFilterResult ==
    /\ dash.pc = "filterQuery"
    /\ \E res \in QueryOutcomes, primary \in ComponentAnnotations,
          roadie \in ComponentAnnotations :
         LET d == [dash EXCEPT !.userRef = Undefined, !.filtersAnn = None, !.filters = <<>>]
             components == ComponentsOf(primary, roadie)
         IN dash' = IF ~res.ok THEN ErrorHandler(d)
                    ELSE IF TruthyArray(components)
                    THEN [d EXCEPT !.pc = "componentQuery", !.filterIssues = res.issues,
                                   !.compAnn = primary, !.roadieAnn = roadie,
                                   !.components = components,
                                   !.hasComponents = components # <<>>,
                                   !.calls = @ \cup {"getIssuesFromComponents"}]
                    ELSE [Respond(d, 200, "jiraResponse") EXCEPT
                                   !.filterIssues = res.issues, !.data = res.issues]
    /\ UNCHANGED <<now, cache, av, readme>>

DashComponentResult ==
    /\ dash.pc = "componentQuery"
    /\ \E res \in QueryOutcomes :
         LET d == [dash EXCEPT !.compAnn = None, !.roadieAnn = None, !.components = <<>>]
         IN dash' = IF ~res.ok THEN ErrorHandler(d)
                    ELSE [Respond(d, 200, "jiraResponse") EXCEPT
                                   !.componentIssues = res.issues,
                                   !.data = MergeIssues(dash.filterIssues, res.issues)]
    /\ UNCHANGED <<now, cache, av, readme>>

DashFinish ==
    /\ dash.pc = "done"
    /\ dash' = DashIdle
    /\ UNCHANGED <<now, cache, av, readme>>

Tick ==
    /\ now + TickMs <= MaxTicks * TickMs
    /\ now' = now + TickMs
    /\ UNCHANGED <<cache, dash, av, readme>>

\* ---------------------------------------------------- avatar handler ----
AvIdle ==
    [pc |-> "idle", entityFound |-> FALSE, projectKey |-> Undefined,
     project |-> "pending", projectResponse |-> Undefined, lookup |-> NoLookup,
     calls |-> {}, contentType |-> Undefined, stream |-> "none",
     emitted |-> 0, buffered |-> 0, written |-> 0,
     headersSent |-> FALSE, headWrites |-> 0, ended |-> FALSE,
     status |-> 0, body |-> "none"]

\* a complete response written in one go: status line, headers, body, end
AvRespond(a, s, b) ==
    [Respond(a, s, b) EXCEPT !.headersSent = TRUE, !.headWrites = @ + 1, !.ended = TRUE]

AvErrorHandler(a) == AvRespond(a, 500, "errorHandler")

\* the code after getProjectResponse has returned r
AvAfterProject(a, r) ==
    IF Falsy(r) THEN AvRespond([a EXCEPT !.project = "empty"], 400, "errorObject")
    ELSE [a EXCEPT !.pc = "fetchAvatar", !.project = "returned", !.projectResponse = r,
                   !.calls = @ \cup {"getProjectAvatar"}]

AvRequest ==
    /\ av.pc = "idle"
    /\ \E catalog \in CatalogOutcomes, key \in KeyAnnotations :
         av' = IF catalog = "error" THEN AvErrorHandler(av)
               ELSE IF catalog = "absent" THEN AvRespond(av, 500, "errorObject")
               ELSE [av EXCEPT !.pc = "getProject", !.entityFound = TRUE,
                               !.projectKey = key]
    /\ UNCHANGED <<now, cache, dash, readme>>

AvGetProject ==
    /\ av.pc = "getProject"
    /\ LET l == LookupOf(av.projectKey)
       IN av' = IF l.outcome = "hit"
                THEN AvAfterProject([av EXCEPT !.lookup = l], CacheGet(av.projectKey))
                ELSE [av EXCEPT !.pc = "upstream", !.lookup = l,
                                !.calls = @ \cup {"getProject"}]
    /\ UNCHANGED <<now, cache, dash, readme>>

AvProjectReturn ==
    /\ av.pc = "upstream"
    /\ \E o \in ProjectOutcomes(av.projectKey) :
         /\ cache' = IF o = "ok" THEN CacheSet(av.projectKey, av.projectKey) ELSE cache
         /\ av' = IF o = "error" THEN AvErrorHandler([av EXCEPT !.project = "threw"])
                  ELSE AvAfterProject(av, IF o = "ok" THEN av.projectKey ELSE Undefined)
    /\ UNCHANGED <<now, dash, readme>>

\* getProjectAvatar resolves; the header is set, the pipeline and the pipe start
AvAvatarReturn ==
    /\ av.pc = "fetchAvatar"
    /\ \E ok \in BOOLEAN, header \in {Undefined, "image/png"} :
         av' = IF ~ok THEN AvErrorHandler([av EXCEPT !.lookup = NoLookup])
               ELSE [av EXCEPT !.pc = "streaming", !.lookup = NoLookup,
                               !.contentType = IF header = Undefined THEN "" ELSE header,
                               !.stream = "open"]
    /\ UNCHANGED <<now, cache, dash, readme>>

\* avatar.body emits a chunk; the pipeline writes it into the PassThrough
AvBodyChunk ==
    /\ av.pc = "streaming" /\ av.stream = "open"
    /\ av.emitted < MaxChunks
    /\ av' = [av EXCEPT !.emitted = @ + 1, !.buffered = @ + 1]
    /\ UNCHANGED <<now, cache, dash, readme>>

\* ps.pipe(response) forwards a chunk; the first write sends status 200 and headers
AvPipeWrite ==
    /\ av.pc = "streaming" /\ av.stream \in {"open", "ended"}
    /\ av.buffered > 0
    /\ av' = [av EXCEPT !.buffered = @ - 1, !.written = @ + 1,
                        !.headersSent = TRUE,
                        !.headWrites = IF av.headersSent THEN @ ELSE @ + 1,
                        !.status = IF av.headersSent THEN @ ELSE 200,
                        !.body = "image"]
    /\ UNCHANGED <<now, cache, dash, readme>>

AvBodyEnd ==
    /\ av.pc = "streaming" /\ av.stream = "open"
    /\ av' = [av EXCEPT !.stream = "ended"]
    /\ UNCHANGED <<now, cache, dash, readme>>

\* the PassThrough has drained and ends: the pipe ends the response, the
\* pipeline callback runs without an error
AvPipeEnd ==
    /\ av.pc = "streaming" /\ av.stream = "ended"
    /\ av.buffered = 0
    /\ av' = [av EXCEPT !.pc = "done", !.ended = TRUE, !.headersSent = TRUE,
                        !.headWrites = IF av.headersSent THEN @ ELSE @ + 1,
                        !.status = IF av.headersSent THEN @ ELSE 200,
                        !.body = "image"]
    /\ UNCHANGED <<now, cache, dash, readme>>

\* avatar.body fails: the pipeline destroys the PassThrough, what it still
\* buffers is lost
AvBodyError ==
    /\ av.pc = "streaming" /\ av.stream = "open"
    /\ av' = [av EXCEPT !.stream = "errored", !.buffered = 0]
    /\ UNCHANGED <<now, cache, dash, readme>>

\* the pipeline callback with err: response.sendStatus(400), which on a
\* response whose headers are out throws and leaves the response open
AvPipelineError ==
    /\ av.pc = "streaming" /\ av.stream = "errored"
    /\ av' = IF av.headersSent
             THEN [av EXCEPT !.pc = "done", !.headWrites = @ + 1]
             ELSE [av EXCEPT !.pc = "done", !.headWrites = @ + 1, !.headersSent = TRUE,
                             !.status = 400, !.body = "statusText", !.ended = TRUE]
    /\ UNCHANGED <<now, cache, dash, readme>>

AvFinish ==
    /\ av.pc = "done"
    /\ av' = AvIdle
    /\ UNCHANGED <<now, cache, dash, readme>>

\* ------------------------------------------- README fetch component ----
Kinds == {"component", "api"}

Namespaces == {"default", "team"}

Names == {"a", "b", "c"}

EntityRefs == [kind : Kinds, namespace : Namespaces, name : Names]

Contents == {"mockedReadmeContent", "otherReadmeContent"}

\* what GET /api/readme/:entityRef may answer; "" is a body without content
Responses == {[status |-> 200, content |-> c] : c \in Contents \cup {""}}
             \cup {[status |-> s, content |-> ""] : s \in {0, 404, 500}}

NoResponse == [status |-> -1, content |-> ""]

ReadmeUnmounted ==
    [state |-> "unmounted", entity |-> [kind |-> "", namespace |-> "", name |-> ""],
     url |-> <<>>, fetch |-> "none", fetches |-> 0, settles |-> 0,
     response |-> NoResponse, content |-> ""]

stringifyEntityRef(e) == <<e.kind, ":", e.namespace, "/", e.name>>

\* the state the component takes when its fetch settles with response r
SettledState(r) ==
    IF r.status # 200 THEN "error"
    ELSE IF r.content = "" THEN "empty"
    ELSE "success"

RenderMarkerAlways(state) == {"readme-content"}

\* test ids of what the component shows in a state
Render(state) ==
    CASE state = "loading" -> {"progress"}
      [] state = "success" -> {"readme-content"}
      [] state = "error" -> {"error"}
      [] state = "empty" -> {"empty"}
      [] OTHER -> {}

ReadmeMount ==
    /\ readme.state = "unmounted"
    /\ \E e \in EntityRefs :
         readme' = [ReadmeUnmounted EXCEPT !.state = "loading", !.entity = e,
                                           !.url = <<"/api/readme/">> \o stringifyEntityRef(e),
                                           !.fetch = "pending", !.fetches = 1]
    /\ UNCHANGED backend

ReadmeServerRespond ==
    /\ readme.fetch = "pending"
    /\ \E r \in Responses : readme' = [readme EXCEPT !.fetch = "responded", !.response = r]
    /\ UNCHANGED backend

ReadmeSettle ==
    /\ readme.fetch = "responded"
    /\ readme' = [readme EXCEPT !.fetch = "settled", !.settles = @ + 1,
                                !.state = SettledState(readme.response),
                                !.content = readme.response.content]
    /\ UNCHANGED backend

\* the view is dismissed: a fetch still in flight is aborted
ReadmeUnmount ==
    /\ readme.state # "unmounted"
    /\ readme' = ReadmeUnmounted
    /\ UNCHANGED backend

\* ------------------------------------------------------ specification ----
Init ==
    /\ now = 0
    /\ cache = [k \in ProjectKeys |-> NoEntry]
    /\ dash = DashIdle
    /\ av = AvIdle
    /\ readme = ReadmeUnmounted

Next ==
    \/ DashRequest \/ DashGetProject \/ DashProjectReturn \/ DashBuildFilters
    \/ DashFilterResult \/ DashComponentResult \/ DashFinish
    \/ AvRequest \/ AvGetProject \/ AvProjectReturn \/ AvAvatarReturn
    \/ AvBodyChunk \/ AvPipeWrite \/ AvBodyEnd \/ AvPipeEnd
    \/ AvBodyError \/ AvPipelineError \/ AvFinish
    \/ Tick

\* both handlers, concurrently, on every input
Spec == Init /\ [][Next]_vars

\* the dashboard handler alone: what an avatar request leaves in the cache
\* an earlier dashboard request leaves there too
NextDashboard ==
    \/ DashRequest \/ DashGetProject \/ DashProjectReturn \/ DashBuildFilters
    \/ DashFilterResult \/ DashComponentResult \/ DashFinish
    \/ Tick

SpecDashboard == Init /\ [][NextDashboard]_vars

\* the avatar handler alone
NextAvatar ==
    \/ AvRequest \/ AvGetProject \/ AvProjectReturn \/ AvAvatarReturn
    \/ AvBodyChunk \/ AvPipeWrite \/ AvBodyEnd \/ AvPipeEnd
    \/ AvBodyError \/ AvPipelineError \/ AvFinish
    \/ Tick

SpecAvatar == Init /\ [][NextAvatar]_vars

\* both handlers, concurrently, for entities that carry no filters and no
\* component annotation (neither is read by the project lookup)
PlainEntity == dash.filtersAnn = None /\ dash.compAnn = None /\ dash.roadieAnn = None

NextLookups ==
    \/ DashRequest \/ DashGetProject \/ DashProjectReturn
    \/ DashBuildFilters /\ PlainEntity'
    \/ DashFilterResult /\ PlainEntity'
    \/ DashComponentResult \/ DashFinish
    \/ AvRequest \/ AvGetProject \/ AvProjectReturn \/ AvAvatarReturn
    \/ AvBodyChunk \/ AvPipeWrite \/ AvBodyEnd \/ AvPipeEnd
    \/ AvBodyError \/ AvPipelineError \/ AvFinish
    \/ Tick

SpecLookups == Init /\ [][NextLookups]_vars

NextReadme == ReadmeMount \/ ReadmeServerRespond \/ ReadmeSettle \/ ReadmeUnmount

SpecReadme == Init /\ [][NextReadme]_vars

\* ------------------------------------------------------------- claims ----
IssueQueries == {"getIssuesFromFilters", "getIssuesFromComponents"}

\* C1: a dashboard request whose entity resolves but carries no, or an empty,
\* project-key annotation is answered 404 at once and has made no call to the
\* issue tracker (no get-project, no issue query).
C1_NoProjectKeyIs404 ==
    (dash.entityFound /\ dash.projectKey \in {Undefined, ""})
        => (dash.pc = "done" /\ dash.status = 404 /\ dash.calls = {})

C1_Witness ==
    dash.pc = "done" /\ dash.entityFound /\ dash.projectKey = "" /\ dash.status = 404

LookupWithinTTL(r) ==
    r.lookup.outcome # "none" =>
        /\ r.lookup.outcome = "hit" <=> (r.lookup.elapsed >= 0 /\ r.lookup.elapsed < 60000)
        /\ r.lookup.outcome = "hit" <=> "getProject" \notin r.calls

\* C2: a project lookup, by either handler, asks the tracker for the project
\* exactly when the key was never stored or was last stored 60 seconds or more
\* ago; less than 60 seconds after a store the cached project is returned and
\* get-project is not invoked.
C2_ProjectCachedForTTL == LookupWithinTTL(dash) /\ LookupWithinTTL(av)

C2_Witness ==
    /\ dash.lookup.outcome = "hit" /\ dash.lookup.elapsed > 0
    /\ av.lookup.outcome = "miss" /\ av.lookup.elapsed >= 60000
    /\ "getProject" \in av.calls

\* C3: an avatar request whose entity resolves and whose project lookup fails
\* (it throws, or returns no project) is answered 400 and never fetches or
\* streams the avatar image.
C3_LookupFailureIs400 ==
    (av.pc = "done" /\ av.entityFound /\ av.project \in {"threw", "empty"})
        => (av.status = 400 /\ "getProjectAvatar" \notin av.calls /\ av.stream = "none")

\* C4: a dashboard request whose project lookup throws is answered 404 with a
\* JSON error object, never 500, and issues neither issue query.
C4_LookupFailureIs404 ==
    dash.project = "threw"
        => (dash.pc = "done" /\ dash.status = 404 /\ dash.body = "errorObject"
            /\ dash.calls \cap IssueQueries = {})

C4_Witness ==
    dash.pc = "done" /\ dash.project = "threw" /\ dash.projectKey = "K1" /\ dash.status = 404

\* C5: a successful dashboard request on an entity with components returns the
\* filter query's result followed by the component query's result, nothing
\* removed: an issue both queries return is there twice.
C5_DataIsConcatenation ==
    (dash.pc = "done" /\ dash.status = 200 /\ dash.hasComponents)
        => /\ "getIssuesFromComponents" \in dash.calls
           /\ Len(dash.data) = Len(dash.filterIssues) + Len(dash.componentIssues)
           /\ \A i \in 1..Len(dash.filterIssues) : dash.data[i] = dash.filterIssues[i]
           /\ \A i \in 1..Len(dash.componentIssues) :
                dash.data[Len(dash.filterIssues) + i] = dash.componentIssues[i]

C5_Witness ==
    /\ dash.pc = "done" /\ dash.status = 200 /\ dash.hasComponents
    /\ dash.filterIssues = <<"I1">> /\ dash.componentIssues = <<"I1">>
    /\ dash.data = <<"I1", "I1">>

\* C6: with both component annotations present the component query is given
\* the comma-split values of the primary annotation followed by those of the
\* Roadie annotation.
C6_BothComponentAnnotations ==
    (dash.pc = "componentQuery" /\ dash.compAnn.has /\ dash.roadieAnn.has)
        => dash.components = split(dash.compAnn.val) \o split(dash.roadieAnn.val)

C6_Witness ==
    /\ dash.pc = "componentQuery"
    /\ dash.compAnn = Some(<<"A">>) /\ dash.roadieAnn = Some(<<"B">>)
    /\ dash.components = << <<"A">>, <<"B">> >>

\* C7: the filter query is given the default filters first, in order, then one
\* filter per name of the filters annotation in annotation order; without the
\* annotation it is given exactly the default filters.
C7_DefaultFiltersFirst ==
    dash.pc = "filterQuery" =>
        LET defaults == getDefaultFilters(dash.userRef)
            names == IF dash.filtersAnn.has THEN split(dash.filtersAnn.val) ELSE <<>>
        IN /\ Len(dash.filters) = Len(defaults) + Len(names)
           /\ \A i \in 1..Len(defaults) : dash.filters[i] = defaults[i]
           /\ \A i \in 1..Len(names) :
                dash.filters[Len(defaults) + i] = [origin |-> "config", id |-> names[i]]

C7_Witness ==
    /\ dash.pc = "filterQuery" /\ dash.userRef # Undefined
    /\ dash.filtersAnn = Some(<<"B", ",", "A">>)
    /\ Len(dash.filters) = 5 /\ dash.filters[4].id = <<"B">>

\* C8: the README component is loading while its one fetch is in flight and
\* settles once: on a 200 with content the marker readme-content is rendered,
\* on a failed fetch an error is rendered and the marker is not.
C8_ReadmeStates ==
    /\ readme.fetches <= 1 /\ readme.settles <= 1
    /\ readme.fetch \in {"pending", "responded"} => readme.state = "loading"
    /\ (readme.fetch = "settled" /\ readme.response.status = 200
            /\ readme.response.content # "")
        => "readme-content" \in Render(readme.state)
    /\ (readme.fetch = "settled" /\ readme.response.status # 200)
        => ("error" \in Render(readme.state)
            /\ "readme-content" \notin Render(readme.state))

C8_Witness ==
    /\ readme.fetch = "settled" /\ readme.response.status = 200
    /\ readme.content = "mockedReadmeContent" /\ readme.state = "success"

\* C9: the component query is issued only for an entity with components: with
\* neither component annotation getIssuesFromComponents is not called and the
\* returned data is the filter query's result.
C9_ComponentQueryOnlyWithComponents ==
    /\ "getIssuesFromComponents" \in dash.calls <=>
           (dash.hasComponents /\ dash.pc \in {"componentQuery", "done"})
    /\ (dash.pc = "done" /\ dash.status = 200 /\ ~dash.hasComponents)
           => dash.data = dash.filterIssues

\* C10: an avatar request starts at most one response: status and headers are
\* written once, also when the image stream fails after bytes were forwarded.
C10_AtMostOneResponse == av.headWrites <= 1

====
